---- MODULE Spec2Model ----
(***************************************************************************)
(* Model of keycloak.connection.ConnectionManager                          *)
(* (src/src/keycloak/connection.py).                                       *)
(*                                                                         *)
(* The manager is a configuration holder (base URL, headers, timeout,      *)
(* verify, cert), one requests.Session, one httpx.AsyncClient and eight    *)
(* request operations.  Python objects are modelled as tagged records so   *)
(* that None, dicts, strings, ints and bools can be compared and so that   *)
(* Python truthiness (`value or {}`) can be computed as Python does.       *)
(*                                                                         *)
(* The two HTTP libraries are the environment: a request is answered       *)
(* according to a network behaviour `net` (how many attempts fail, with    *)
(* which failure, which status the server finally answers with, whether    *)
(* the awaiting task is cancelled).  The transports re-send as their       *)
(* configuration, set in __init__, says.  The proxies argument only        *)
(* configures the libraries and is left out.                               *)
(*                                                                         *)
(* State: _base_url, _headers, _timeout, _verify, _cert are the attributes *)
(* behind the accessors; _s is the requests.Session (its adapters per      *)
(* protocol, whether it is closed); async_s is the httpx.AsyncClient (the  *)
(* verify and cert it was built with, its transport, whether it is         *)
(* closed); args are the arguments __init__ was called with; alive says    *)
(* that __del__ has not run; last records the operation that ran last:     *)
(* its arguments, what went to the client, what the client answered and    *)
(* what the operation returned or raised.                                  *)
(***************************************************************************)
EXTENDS Integers, Sequences, FiniteSets, TLC

VARIABLES _base_url, _headers, _timeout, _verify, _cert, _s, async_s,
          args, alive, last

vars == <<_base_url, _headers, _timeout, _verify, _cert, _s, async_s,
          args, alive, last>>

(***************************************************************************)
(* Bounds of the model.                                                    *)
(***************************************************************************)
\* largest max_retries value handed to the constructor
MaxRetriesArg == 2
\* largest number of consecutive failing attempts the network produces
MaxFails == 3

(***************************************************************************)
(* Python values.                                                          *)
(***************************************************************************)
PyNone == [type |-> "NoneType"]

PyStr(v) == [type |-> "str", value |-> v]

PyInt(n) == [type |-> "int", value |-> n]

PyBool(b) == [type |-> "bool", value |-> b]

PyDict(f) == [type |-> "dict", items |-> f]

EmptyItems == [k \in {} |-> PyNone]

EmptyDict == PyDict(EmptyItems)

\* bool(o) as Python computes it for the value kinds used here
Truthy(o) ==
  CASE o.type = "NoneType" -> FALSE
    [] o.type = "dict" -> DOMAIN o.items # {}
    [] o.type = "str" -> o.value # ""
    [] o.type = "int" -> o.value # 0
    [] o.type = "bool" -> o.value
    [] OTHER -> TRUE

\* the Python expression `a or b`
PyOr(a, b) == IF Truthy(a) THEN a ELSE b

\* dict.get(key): the value, or None when the key is absent
DictGet(d, key) == IF key \in DOMAIN d.items THEN d.items[key] ELSE PyNone

\* d[key] = value (in place)
DictSetItem(d, key, value) ==
  PyDict([k \in (DOMAIN d.items) \cup {key} |->
          IF k = key THEN value ELSE d.items[k]])

\* d.pop(key, None) (in place; the popped value is discarded by the caller)
DictPop(d, key) ==
  PyDict([k \in (DOMAIN d.items) \ {key} |-> d.items[k]])

\* all dicts with keys among K and values among V
DictsOver(K, V) ==
  UNION {{PyDict(f) : f \in [D -> V]} : D \in SUBSET K}

Range(f) == {f[i] : i \in DOMAIN f}

(***************************************************************************)
(* URLs.  A URL is its scheme prefix, its network location and the         *)
(* sequence of its path segments (a last segment "" is a trailing slash).  *)
(* A request path is absolute (leading "/") or relative.                   *)
(***************************************************************************)
Protocols == {"https://", "http://"}

Url(scheme, netloc, path) == [scheme |-> scheme, netloc |-> netloc, path |-> path]

Path(abs, segs) == [abs |-> abs, segs |-> segs]

DropLast(s) == IF s = <<>> THEN <<>> ELSE SubSeq(s, 1, Len(s) - 1)

\* urllib.parse.urljoin(base, path) for a path without scheme, netloc or dots
urljoin(base, path) ==
  IF path.segs = <<>> /\ ~path.abs THEN base
  ELSE IF path.abs THEN [base EXCEPT !.path = path.segs]
  ELSE [base EXCEPT !.path = DropLast(base.path) \o path.segs]

(***************************************************************************)
(* Exceptions.  An exception is its class, the classes it derives from     *)
(* and its description.  Transport failures of both libraries derive from  *)
(* Exception; asyncio.CancelledError derives from BaseException only.      *)
(***************************************************************************)
\* a failure while connecting, and a failure while reading the answer
FailureKinds == {"ConnectionError", "ReadTimeout"}

ConnectFailures == {"ConnectionError"}

Description(cls) ==
  CASE cls = "ConnectionError" -> "Connection refused"
    [] cls = "ReadTimeout" -> "Read timed out"
    [] cls = "RuntimeError" -> "client has been closed"
    [] OTHER -> ""

Exc(cls) ==
  [class |-> cls,
   mro |-> IF cls = "CancelledError" THEN {cls, "BaseException"}
           ELSE {cls, "Exception", "BaseException"},
   desc |-> Description(cls)]

\* repr(e): the class name and the description, as the pieces of the string
repr(e) == PyStr(<<e.class, "(", e.desc, ")">>)

Contains(str, piece) == piece \in Range(str.value)

\* KeycloakConnectionError(msg) from cause
KeycloakConnectionError(msg, cause) ==
  [class |-> "KeycloakConnectionError",
   mro |-> {"KeycloakConnectionError", "KeycloakError", "Exception", "BaseException"},
   error_message |-> msg,
   cause |-> cause]

Response(status) == [type |-> "Response", status_code |-> status]

Statuses == {200, 404, 500}

(***************************************************************************)
(* __init__: the session, its retry adapters, the asynchronous client.     *)
(***************************************************************************)
\* urllib3's Retry.DEFAULT_ALLOWED_METHODS, read at line 108
DefaultAllowedMethods == {"HEAD", "GET", "PUT", "DELETE", "OPTIONS", "TRACE"}

\* the adapters a fresh requests.Session() carries: no retries
SessionDefaultAdapter == [max_retries |-> 0, allowed_methods |-> DefaultAllowedMethods]

\* HTTPAdapter(max_retries=max_retries) with POST added to the allowed methods
NewAdapter(max_retries) ==
  [max_retries |-> max_retries,
   allowed_methods |-> DefaultAllowedMethods \cup {"POST"}]

\* the protocols the loop of __init__ mounts an adapter for
MountedProtocols == {"https://", "http://"}

Mounted(max_retries) ==
  [p \in Protocols |->
     IF p \in MountedProtocols THEN NewAdapter(max_retries)
     ELSE SessionDefaultAdapter]

\* the retries of the transport given to the asynchronous client
AsyncRetriesFollowArg(max_retries) == max_retries

AsyncTransportRetries(max_retries) == 1

\* headers.setter: self._headers = value or {}
HeadersSetterPlain(value) == value

HeadersSetter(value) == PyOr(value, EmptyDict)

NewSession(max_retries) ==
  [auth |-> "identity", adapters |-> Mounted(max_retries), closed |-> FALSE]

\* a client built without the verify and cert arguments
NewAsyncClientDefaultTls(verify, cert, max_retries) ==
  [verify |-> PyBool(TRUE), cert |-> PyNone, auth |-> PyNone,
   transport |-> [retries |-> 1], closed |-> FALSE]

NewAsyncClient(verify, cert, max_retries) ==
  [verify |-> verify, cert |-> cert, auth |-> PyNone,
   transport |-> [retries |-> AsyncTransportRetries(max_retries)],
   closed |-> FALSE]

\* the state after ConnectionManager(**a)
Constructed(a) ==
  /\ _base_url = a.base_url
  /\ _headers = HeadersSetter(a.headers)
  /\ _timeout = a.timeout
  /\ _verify = a.verify
  /\ _cert = a.cert
  /\ _s = NewSession(a.max_retries)
  /\ async_s = NewAsyncClient(a.verify, a.cert, a.max_retries)
  /\ args = a
  /\ alive = TRUE
  /\ last = [op |-> "__init__"]

(***************************************************************************)
(* Accessors and header operations.                                        *)
(***************************************************************************)
base_url == _base_url

timeout == _timeout

verify == _verify

cert == _cert

headers == _headers

param_headers(key) == DictGet(headers, key)

exist_param_headers(key) == param_headers(key) # PyNone

add_param_headers(key, value) == DictSetItem(headers, key, value)

\* a removal that leaves the mapping as it is
DelKeepsKey(key) == headers

del_param_headers(key) == DictPop(headers, key)

clean_headers == HeadersSetter(EmptyDict)

\* _filter_query_params: {k: v for k, v in query_params.items() if v is not None}
FilterNothing(query_params) == query_params

_filter_query_params(query_params) ==
  PyDict([k \in {j \in DOMAIN query_params.items : query_params.items[j] # PyNone}
            |-> query_params.items[k]])

(***************************************************************************)
(* The libraries.  `net` is what the network does to one request:          *)
(* net.fails attempts in a row fail with net.failure, then the server      *)
(* answers with net.status; net.cancel says that the awaiting task is      *)
(* cancelled while the request is in flight.                               *)
(***************************************************************************)
Answer(net, retries) ==
  IF net.fails <= retries
  THEN [kind |-> "response", value |-> Response(net.status), resends |-> net.fails]
  ELSE [kind |-> "error", exc |-> Exc(net.failure), resends |-> retries]

\* requests: the adapter mounted for the URL's protocol re-sends; a failure
\* while reading is retried only for the adapter's allowed methods
RequestsSend(call, net) ==
  LET adapter == _s.adapters[call.url.scheme]
      retries == IF \/ net.failure \in ConnectFailures
                    \/ call.method \in adapter.allowed_methods
                 THEN adapter.max_retries ELSE 0
  IN Answer(net, retries)

\* requests leaves parameters whose value is None out of the query string and
\* uses the verify and cert of the call
RequestsWire(call) ==
  [url |-> call.url, method |-> call.method,
   query |-> [k \in {j \in DOMAIN call.params.items : call.params.items[j] # PyNone}
                |-> call.params.items[k]],
   data |-> call.data, headers |-> call.headers, timeout |-> call.timeout,
   verify |-> call.verify, cert |-> call.cert]

\* httpx: a closed client refuses to send; a cancelled task gets CancelledError
\* at its await; the transport re-sends after a failure to connect only
HttpxSend(call, net) ==
  IF async_s.closed
  THEN [kind |-> "error", exc |-> Exc("RuntimeError"), resends |-> 0]
  ELSE IF net.cancel
  THEN [kind |-> "error", exc |-> Exc("CancelledError"), resends |-> 0]
  ELSE Answer(net, IF net.failure \in ConnectFailures
                   THEN async_s.transport.retries ELSE 0)

\* httpx sends the parameters as they are given and uses the verify and cert
\* the client was built with
HttpxWire(call) ==
  [url |-> call.url, method |-> call.method,
   query |-> call.params.items,
   data |-> call.data, headers |-> call.headers, timeout |-> call.timeout,
   verify |-> async_s.verify, cert |-> async_s.cert]

(***************************************************************************)
(* The request operations.                                                 *)
(***************************************************************************)
SyncOps == {"raw_get", "raw_post", "raw_put", "raw_delete"}

AsyncOps == {"a_raw_get", "a_raw_post", "a_raw_put", "a_raw_delete"}

RequestOps == SyncOps \cup AsyncOps

\* the arguments of self._s.get/post/put/delete
SyncCall(method, path, data, kwargs) ==
  [method |-> method, url |-> urljoin(base_url, path), params |-> kwargs,
   data |-> data, headers |-> headers, timeout |-> timeout,
   verify |-> verify, cert |-> cert]

\* the arguments of self.async_s.get/request/put
AsyncCall(method, path, data, kwargs) ==
  [method |-> method, url |-> urljoin(base_url, path),
   params |-> _filter_query_params(kwargs),
   data |-> data, headers |-> headers, timeout |-> timeout]

\* except Exception as e
CatchesConnectionErrorOnly(e) == "ConnectionError" \in e.mro

CatchesBaseException(e) == "BaseException" \in e.mro

Catches(e) == "Exception" \in e.mro

\* return <the client's response>
ReturnCheckingStatus(response) ==
  IF response.status_code >= 400
  THEN [kind |-> "raise", exc |-> Exc("HTTPError")]
  ELSE [kind |-> "return", value |-> response]

Return(response) == [kind |-> "return", value |-> response]

\* raise KeycloakConnectionError(repr(e)) from e
Raise(e) ==
  [kind |-> "raise", exc |-> KeycloakConnectionError(repr(e), e)]

\* try: return <client call> / except Exception as e: raise ... from e
TryExcept(result) ==
  IF result.kind = "response" THEN Return(result.value)
  ELSE IF Catches(result.exc) THEN Raise(result.exc)
  ELSE [kind |-> "raise", exc |-> result.exc]

\* the record of a finished request operation
Finished(op, path, data, kwargs, wire, result) ==
  [op |-> op, path |-> path, data |-> data, kwargs |-> kwargs,
   wire |-> wire, client |-> result, outcome |-> TryExcept(result)]

Config == <<_base_url, _headers, _timeout, _verify, _cert, _s, async_s, args, alive>>

raw_get(path, kwargs, net) ==
  /\ alive /\ ~net.cancel
  /\ LET call == SyncCall("GET", path, PyNone, kwargs)
     IN last' = Finished("raw_get", path, PyNone, kwargs,
                         RequestsWire(call), RequestsSend(call, net))
  /\ UNCHANGED Config

raw_post(path, data, kwargs, net) ==
  /\ alive /\ ~net.cancel
  /\ LET call == SyncCall("POST", path, data, kwargs)
     IN last' = Finished("raw_post", path, data, kwargs,
                         RequestsWire(call), RequestsSend(call, net))
  /\ UNCHANGED Config

raw_put(path, data, kwargs, net) ==
  /\ alive /\ ~net.cancel
  /\ LET call == SyncCall("PUT", path, data, kwargs)
     IN last' = Finished("raw_put", path, data, kwargs,
                         RequestsWire(call), RequestsSend(call, net))
  /\ UNCHANGED Config

raw_delete(path, data, kwargs, net) ==
  /\ alive /\ ~net.cancel
  /\ LET call == SyncCall("DELETE", path, PyOr(data, EmptyDict), kwargs)
     IN last' = Finished("raw_delete", path, data, kwargs,
                         RequestsWire(call), RequestsSend(call, net))
  /\ UNCHANGED Config

a_raw_get(path, kwargs, net) ==
  /\ alive
  /\ LET call == AsyncCall("GET", path, PyNone, kwargs)
     IN last' = Finished("a_raw_get", path, PyNone, kwargs,
                         HttpxWire(call), HttpxSend(call, net))
  /\ UNCHANGED Config

a_raw_post(path, data, kwargs, net) ==
  /\ alive
  /\ LET call == AsyncCall("POST", path, data, kwargs)
     IN last' = Finished("a_raw_post", path, data, kwargs,
                         HttpxWire(call), HttpxSend(call, net))
  /\ UNCHANGED Config

a_raw_put(path, data, kwargs, net) ==
  /\ alive
  /\ LET call == AsyncCall("PUT", path, data, kwargs)
     IN last' = Finished("a_raw_put", path, data, kwargs,
                         HttpxWire(call), HttpxSend(call, net))
  /\ UNCHANGED Config

a_raw_delete(path, data, kwargs, net) ==
  /\ alive
  /\ LET call == AsyncCall("DELETE", path, PyOr(data, EmptyDict), kwargs)
     IN last' = Finished("a_raw_delete", path, data, kwargs,
                         HttpxWire(call), HttpxSend(call, net))
  /\ UNCHANGED Config

(***************************************************************************)
(* Accessors that replace a configuration value.                           *)
(***************************************************************************)
set_base_url(value) ==
  /\ alive
  /\ _base_url' = value
  /\ last' = [op |-> "base_url.setter", value |-> value]
  /\ UNCHANGED <<_headers, _timeout, _verify, _cert, _s, async_s, args, alive>>

set_timeout(value) ==
  /\ alive
  /\ _timeout' = value
  /\ last' = [op |-> "timeout.setter", value |-> value]
  /\ UNCHANGED <<_base_url, _headers, _verify, _cert, _s, async_s, args, alive>>

set_verify(value) ==
  /\ alive
  /\ _verify' = value
  /\ last' = [op |-> "verify.setter", value |-> value]
  /\ UNCHANGED <<_base_url, _headers, _timeout, _cert, _s, async_s, args, alive>>

set_cert(value) ==
  /\ alive
  /\ _cert' = value
  /\ last' = [op |-> "cert.setter", value |-> value]
  /\ UNCHANGED <<_base_url, _headers, _timeout, _verify, _s, async_s, args, alive>>

set_headers(value) ==
  /\ alive
  /\ _headers' = HeadersSetter(value)
  /\ last' = [op |-> "headers.setter", value |-> value, pre |-> _headers]
  /\ UNCHANGED <<_base_url, _timeout, _verify, _cert, _s, async_s, args, alive>>

(***************************************************************************)
(* Header operations.  `pre` is the header mapping the operation found.    *)
(***************************************************************************)
ParamHeaders(key) ==
  /\ alive
  /\ last' = [op |-> "param_headers", key |-> key, result |-> param_headers(key)]
  /\ UNCHANGED Config

CleanHeaders ==
  /\ alive
  /\ _headers' = clean_headers
  /\ last' = [op |-> "clean_headers", pre |-> _headers]
  /\ UNCHANGED <<_base_url, _timeout, _verify, _cert, _s, async_s, args, alive>>

ExistParamHeaders(key) ==
  /\ alive
  /\ last' = [op |-> "exist_param_headers", key |-> key,
              result |-> exist_param_headers(key)]
  /\ UNCHANGED Config

AddParamHeaders(key, value) ==
  /\ alive
  /\ _headers' = add_param_headers(key, value)
  /\ last' = [op |-> "add_param_headers", key |-> key, value |-> value,
              pre |-> _headers]
  /\ UNCHANGED <<_base_url, _timeout, _verify, _cert, _s, async_s, args, alive>>

DelParamHeaders(key) ==
  /\ alive
  /\ _headers' = del_param_headers(key)
  /\ last' = [op |-> "del_param_headers", key |-> key, pre |-> _headers]
  /\ UNCHANGED <<_base_url, _timeout, _verify, _cert, _s, async_s, args, alive>>

(***************************************************************************)
(* aclose and __del__.  After construction the attribute _s exists, so the *)
(* hasattr guard of both is true.  __del__ runs when the manager is        *)
(* discarded: no operation follows it.                                     *)
(***************************************************************************)
hasattr_s == _s # PyNone

\* await self.async_s.aclose()
AcloseLeavesOpen(client) == client

AsyncClientAclose(client) == [client EXCEPT !.closed = TRUE]

\* self._s.close()
SessionClose(session) == [session EXCEPT !.closed = TRUE]

aclose ==
  /\ alive
  /\ async_s' = IF hasattr_s THEN AsyncClientAclose(async_s) ELSE async_s
  /\ last' = [op |-> "aclose", pre_s |-> _s.closed, pre_async |-> async_s.closed]
  /\ UNCHANGED <<_base_url, _headers, _timeout, _verify, _cert, _s, args, alive>>

__del__ ==
  /\ alive
  /\ _s' = IF hasattr_s THEN SessionClose(_s) ELSE _s
  /\ alive' = FALSE
  /\ last' = [op |-> "__del__", pre_s |-> _s.closed, pre_async |-> async_s.closed]
  /\ UNCHANGED <<_base_url, _headers, _timeout, _verify, _cert, async_s, args>>

(***************************************************************************)
(* Inputs.                                                                 *)
(***************************************************************************)
HeaderKeys == {"Authorization", "Content-Type"}

HeaderValues == {PyStr("Bearer t1"), PyStr("application/json"), PyNone}

\* the values of the `headers` argument and of the headers setter: dict | None
HeaderDicts == DictsOver(HeaderKeys, HeaderValues) \cup {PyNone}

SomeHeaders == PyDict([k \in {"Authorization"} |-> PyStr("Bearer t1")])

ParamKeys == {"first", "max"}

ParamValues == {PyNone, PyInt(0), PyInt(10)}

AllKwargs == DictsOver(ParamKeys, ParamValues)

OneKwargs == {PyDict([k \in ParamKeys |-> IF k = "first" THEN PyNone ELSE PyInt(10)])}

BaseUrls == {Url("https://", "kc.example", <<"auth", "">>),
             Url("http://", "localhost:8080", <<"auth">>)}

RelativePath == Path(FALSE, <<"realms", "master">>)

AbsolutePath == Path(TRUE, <<"admin", "realms">>)

Timeouts == {PyInt(60), PyInt(5)}

Verifies == {PyBool(TRUE), PyBool(FALSE)}

Certs == {PyNone, PyStr("client.pem")}

Payload == PyDict([k \in {"grant_type"} |-> PyStr("password")])

Datas == {PyNone, Payload}

\* every behaviour of the network; a cancelled request has no answer
AllNets ==
  {n \in [fails : 0..MaxFails, failure : FailureKinds, status : Statuses,
          cancel : BOOLEAN] :
     /\ n.fails = 0 => n.failure = "ConnectionError"
     /\ n.cancel => n.fails = 0 /\ n.status = 200}

\* the behaviours that differ in the number and kind of the failures only
FailingNets == {n \in AllNets : n.status = 200 /\ ~n.cancel}

\* an answer, a failure and a cancellation
FewNets == {n \in AllNets : n.status = 200 /\ n.fails \in {0, MaxFails}
                            /\ n.failure = "ConnectionError"}

DefaultArgs ==
  [base_url |-> Url("https://", "kc.example", <<"auth", "">>),
   headers |-> PyNone, timeout |-> PyInt(60), verify |-> PyBool(TRUE),
   cert |-> PyNone, max_retries |-> 1]

(***************************************************************************)
(* Spec: configuration, retries and lifetime.  The constructor's verify,   *)
(* cert, max_retries and base URL vary; every accessor, every request      *)
(* operation, aclose and __del__ act.                                      *)
(***************************************************************************)
Init ==
  \E b \in BaseUrls, v \in Verifies, c \in Certs, m \in 0..MaxRetriesArg :
    Constructed([DefaultArgs EXCEPT !.base_url = b, !.verify = v, !.cert = c,
                                    !.max_retries = m])

Next ==
  \/ \E value \in BaseUrls : set_base_url(value)
  \/ \E value \in Timeouts : set_timeout(value)
  \/ \E value \in Verifies : set_verify(value)
  \/ \E value \in Certs : set_cert(value)
  \/ \E value \in {PyNone, SomeHeaders} : set_headers(value)
  \/ \E net \in FailingNets : raw_get(RelativePath, EmptyDict, net)
  \/ \E net \in FailingNets : raw_post(RelativePath, Payload, EmptyDict, net)
  \/ \E net \in FailingNets : raw_put(RelativePath, Payload, EmptyDict, net)
  \/ \E net \in FailingNets : raw_delete(RelativePath, PyNone, EmptyDict, net)
  \/ \E net \in FailingNets : a_raw_get(RelativePath, EmptyDict, net)
  \/ \E net \in FailingNets : a_raw_post(RelativePath, Payload, EmptyDict, net)
  \/ \E net \in FailingNets : a_raw_put(RelativePath, Payload, EmptyDict, net)
  \/ \E net \in FailingNets : a_raw_delete(RelativePath, PyNone, EmptyDict, net)
  \/ aclose
  \/ __del__

Spec == Init /\ [][Next]_vars

(***************************************************************************)
(* SpecHdr: the header mapping.  The constructor's headers vary over every *)
(* dict and None; every header operation acts with every key and value,    *)
(* between request operations.                                             *)
(***************************************************************************)
InitHdr == \E h \in HeaderDicts : Constructed([DefaultArgs EXCEPT !.headers = h])

NextHdr ==
  \/ \E value \in HeaderDicts : set_headers(value)
  \/ \E key \in HeaderKeys : ParamHeaders(key)
  \/ CleanHeaders
  \/ \E key \in HeaderKeys : ExistParamHeaders(key)
  \/ \E key \in HeaderKeys, value \in HeaderValues : AddParamHeaders(key, value)
  \/ \E key \in HeaderKeys : DelParamHeaders(key)
  \/ \E net \in FewNets : raw_get(RelativePath, EmptyDict, net)
  \/ \E net \in FewNets : raw_post(RelativePath, Payload, EmptyDict, net)
  \/ \E net \in FewNets : raw_put(RelativePath, Payload, EmptyDict, net)
  \/ \E net \in FewNets : raw_delete(RelativePath, PyNone, EmptyDict, net)
  \/ \E net \in FewNets : a_raw_get(RelativePath, EmptyDict, net)
  \/ \E net \in FewNets : a_raw_post(RelativePath, Payload, EmptyDict, net)
  \/ \E net \in FewNets : a_raw_put(RelativePath, Payload, EmptyDict, net)
  \/ \E net \in FewNets : a_raw_delete(RelativePath, PyNone, EmptyDict, net)

SpecHdr == InitHdr /\ [][NextHdr]_vars

(***************************************************************************)
(* SpecReq: the outcome of the request operations.  Every operation acts   *)
(* with every behaviour of the network (answers of every status, failures  *)
(* of every kind, before and after re-sending, cancellation), also after   *)
(* aclose.                                                                 *)
(***************************************************************************)
InitReq == \E h \in {PyNone, SomeHeaders} : Constructed([DefaultArgs EXCEPT !.headers = h])

NextReq ==
  \/ \E p \in {RelativePath, AbsolutePath}, kw \in OneKwargs, net \in AllNets :
       raw_get(p, kw, net)
  \/ \E d \in Datas, kw \in OneKwargs, net \in AllNets :
       raw_post(RelativePath, d, kw, net)
  \/ \E d \in Datas, kw \in OneKwargs, net \in AllNets :
       raw_put(RelativePath, d, kw, net)
  \/ \E d \in Datas, kw \in OneKwargs, net \in AllNets :
       raw_delete(RelativePath, d, kw, net)
  \/ \E p \in {RelativePath, AbsolutePath}, kw \in OneKwargs, net \in AllNets :
       a_raw_get(p, kw, net)
  \/ \E d \in Datas, kw \in OneKwargs, net \in AllNets :
       a_raw_post(RelativePath, d, kw, net)
  \/ \E d \in Datas, kw \in OneKwargs, net \in AllNets :
       a_raw_put(RelativePath, d, kw, net)
  \/ \E d \in Datas, kw \in OneKwargs, net \in AllNets :
       a_raw_delete(RelativePath, d, kw, net)
  \/ aclose

SpecReq == InitReq /\ [][NextReq]_vars

(***************************************************************************)
(* SpecQuery: the query parameters.  Every operation acts with every       *)
(* mapping of the parameter keys to None, 0 or 10.                         *)
(***************************************************************************)
InitQuery == Constructed(DefaultArgs)

NextQuery ==
  \/ \E p \in {RelativePath, AbsolutePath}, kw \in AllKwargs, net \in FewNets :
       raw_get(p, kw, net)
  \/ \E d \in Datas, kw \in AllKwargs, net \in FewNets :
       raw_post(RelativePath, d, kw, net)
  \/ \E d \in Datas, kw \in AllKwargs, net \in FewNets :
       raw_put(RelativePath, d, kw, net)
  \/ \E d \in Datas, kw \in AllKwargs, net \in FewNets :
       raw_delete(RelativePath, d, kw, net)
  \/ \E p \in {RelativePath, AbsolutePath}, kw \in AllKwargs, net \in FewNets :
       a_raw_get(p, kw, net)
  \/ \E d \in Datas, kw \in AllKwargs, net \in FewNets :
       a_raw_post(RelativePath, d, kw, net)
  \/ \E d \in Datas, kw \in AllKwargs, net \in FewNets :
       a_raw_put(RelativePath, d, kw, net)
  \/ \E d \in Datas, kw \in AllKwargs, net \in FewNets :
       a_raw_delete(RelativePath, d, kw, net)

SpecQuery == InitQuery /\ [][NextQuery]_vars

(***************************************************************************)
(* Claims.                                                                 *)
(***************************************************************************)
IsRequest == last.op \in RequestOps

\* the entries of a dict whose value is not None
NotNoneItems(d) ==
  [k \in {j \in DOMAIN d.items : d.items[j] # PyNone} |-> d.items[k]]

Verb(op) ==
  CASE op \in {"raw_get", "a_raw_get"} -> "GET"
    [] op \in {"raw_post", "a_raw_post"} -> "POST"
    [] op \in {"raw_put", "a_raw_put"} -> "PUT"
    [] OTHER -> "DELETE"

\* C1: whenever the client of any of the eight request operations fails with
\* a transport failure, the operation raises KeycloakConnectionError, and the
\* error's message contains the description of that failure.
C1_TransportFailureIsConnectionError ==
  (IsRequest /\ last.client.kind = "error"
             /\ last.client.exc.class \in FailureKinds)
    => /\ last.outcome.kind = "raise"
       /\ last.outcome.exc.class = "KeycloakConnectionError"
       /\ Contains(last.outcome.exc.error_message, last.client.exc.desc)

\* an asynchronous delete whose read timed out raised the connection error
C1_Witness ==
  /\ last.op = "a_raw_delete"
  /\ last.client.kind = "error"
  /\ last.client.exc.class = "ReadTimeout"
  /\ last.outcome.exc.class = "KeycloakConnectionError"

\* C2: a step of a request operation whose client produced a response, of
\* whatever status, returns exactly that response and leaves base URL,
\* headers, timeout, verify and cert as they were.
C2_ResponseReturnedUnmodified ==
  [][(last'.op \in RequestOps /\ last'.client.kind = "response")
       => /\ last'.outcome = [kind |-> "return", value |-> last'.client.value]
          /\ UNCHANGED <<_base_url, _headers, _timeout, _verify, _cert>>]_vars

\* a request answered with status 500 returned the response
C2_Witness ==
  /\ IsRequest
  /\ last.client.kind = "response"
  /\ last.client.value.status_code = 500
  /\ last.outcome.kind = "return"
  /\ last.outcome.value.status_code = 500

\* C3: after add_param_headers(k, v), param_headers(k) is v; after
\* del_param_headers(k), exist_param_headers(k) is false and every other key
\* is present or absent, with its value, as before; after clean_headers the
\* mapping is empty.
C3_HeaderRoundTrip ==
  /\ last.op = "add_param_headers" => param_headers(last.key) = last.value
  /\ last.op = "del_param_headers" =>
       /\ ~exist_param_headers(last.key)
       /\ \A k \in HeaderKeys \ {last.key} :
            /\ (k \in DOMAIN headers.items) = (k \in DOMAIN last.pre.items)
            /\ k \in DOMAIN headers.items => headers.items[k] = last.pre.items[k]
  /\ last.op = "clean_headers" => DOMAIN headers.items = {}

\* a present key was removed while another key stayed
C3_Witness ==
  /\ last.op = "del_param_headers"
  /\ last.key \in DOMAIN last.pre.items
  /\ DOMAIN headers.items # {}

\* C4: the query an asynchronous operation sends holds exactly the keyword
\* arguments whose value is not None, unchanged, and equals the query the
\* synchronous operation of the same verb sends for the same arguments.
C4_AsyncQueryOmitsNone ==
  last.op \in AsyncOps =>
    /\ last.wire.query = NotNoneItems(last.kwargs)
    /\ last.wire.query =
         RequestsWire(SyncCall(Verb(last.op), last.path, last.data,
                               last.kwargs)).query

\* an asynchronous request was given a None parameter and a 0 parameter
C4_Witness ==
  /\ last.op \in AsyncOps
  /\ \E k \in DOMAIN last.kwargs.items : last.kwargs.items[k] = PyNone
  /\ \E k \in DOMAIN last.kwargs.items : last.kwargs.items[k] = PyInt(0)
  /\ DOMAIN last.wire.query # {}

\* C5: the headers attribute is always a mapping, never None.
C5_HeadersNeverNone == headers # PyNone /\ headers.type = "dict"

\* the headers were set to None and are the empty mapping
C5_Witness ==
  /\ last.op = "headers.setter"
  /\ last.value = PyNone
  /\ DOMAIN last.pre.items # {}
  /\ headers = EmptyDict

\* C6 as stated: __del__ releases the session and the client, and so does
\* aclose.
C6_BothReleasedByEither ==
  last.op \in {"__del__", "aclose"} => _s.closed /\ async_s.closed

\* C6 amended: the session and the client are the ones built by __init__;
\* the session is open until __del__ and the client until aclose; __del__
\* closes the session and leaves the client as it was; aclose closes the
\* client and leaves the session as it was.
C6_EachReleasedByItsOwn ==
  /\ [_s EXCEPT !.closed = FALSE] = NewSession(args.max_retries)
  /\ [async_s EXCEPT !.closed = FALSE] =
       NewAsyncClient(args.verify, args.cert, args.max_retries)
  /\ last.op = "__init__" => ~_s.closed /\ ~async_s.closed
  /\ alive => ~_s.closed
  /\ last.op = "__del__" => _s.closed /\ async_s.closed = last.pre_async
  /\ last.op = "aclose" => async_s.closed /\ _s.closed = last.pre_s

\* aclose closed the open client; the session is still open
C6_Witness ==
  /\ last.op = "aclose"
  /\ ~last.pre_async
  /\ async_s.closed
  /\ ~_s.closed

\* C7 as stated: exist_param_headers(key) is true exactly when the key is in
\* the mapping, and param_headers(key) is None only when the key is not in it.
C7_ExistsIffPresent ==
  /\ last.op = "exist_param_headers" =>
       last.result = (last.key \in DOMAIN headers.items)
  /\ (last.op = "param_headers" /\ last.result = PyNone) =>
       last.key \notin DOMAIN headers.items

\* C8: a synchronous request is sent with the current verify, cert, timeout
\* and base URL; an asynchronous request is sent with the verify and cert
\* given to the constructor and with the current timeout, base URL and
\* headers.
C8_TlsPerCallSyncOnly ==
  /\ last.op \in SyncOps =>
       /\ last.wire.verify = verify
       /\ last.wire.cert = cert
       /\ last.wire.timeout = timeout
       /\ last.wire.url = urljoin(base_url, last.path)
  /\ last.op \in AsyncOps =>
       /\ last.wire.verify = args.verify
       /\ last.wire.cert = args.cert
       /\ last.wire.timeout = timeout
       /\ last.wire.url = urljoin(base_url, last.path)
       /\ last.wire.headers = headers

\* verify, cert, timeout and base URL were all replaced before an
\* asynchronous request
C8_Witness ==
  /\ last.op \in AsyncOps
  /\ verify # args.verify
  /\ cert # args.cert
  /\ timeout # args.timeout
  /\ base_url # args.base_url
  /\ last.wire.verify = args.verify

\* C9: the asynchronous transport retries once whatever max_retries is; the
\* adapters of both protocols carry max_retries and allow POST beside the
\* default methods; a synchronous request is re-sent at most max_retries
\* times and an asynchronous one at most once, and a request that still
\* fails raises the connection error.
C9_RetryCounts ==
  /\ async_s.transport.retries = 1
  /\ \A p \in Protocols :
       /\ _s.adapters[p].max_retries = args.max_retries
       /\ DefaultAllowedMethods \cup {"POST"} \subseteq _s.adapters[p].allowed_methods
  /\ last.op \in SyncOps => last.client.resends <= args.max_retries
  /\ last.op \in AsyncOps => last.client.resends <= 1
  /\ (IsRequest /\ last.client.kind = "error") =>
       last.outcome.exc.class = "KeycloakConnectionError"

\* with max_retries 2 a failing asynchronous POST was re-sent once
C9_Witness ==
  /\ args.max_retries = 2
  /\ last.op = "a_raw_post"
  /\ last.client.kind = "error"
  /\ last.client.resends = 1
  /\ last.outcome.exc.class = "KeycloakConnectionError"

\* C10: a cancelled asynchronous request raises the cancellation itself,
\* not a KeycloakConnectionError.
C10_CancellationPropagates ==
  (last.op \in AsyncOps /\ last.client.kind = "error"
                        /\ last.client.exc.class = "CancelledError")
    => /\ last.outcome = [kind |-> "raise", exc |-> last.client.exc]
       /\ last.outcome.exc.class # "KeycloakConnectionError"

\* an asynchronous POST was cancelled in flight
C10_Witness ==
  /\ last.op = "a_raw_post"
  /\ last.client.kind = "error"
  /\ last.outcome.kind = "raise"
  /\ last.outcome.exc.class = "CancelledError"

====
